---- MODULE Spec2Model ----
(***************************************************************************)
(* Model of the real-time transcription WebSocket handler                  *)
(* realtime_transcription (src/openai_server.py, lines 156-248).           *)
(*                                                                         *)
(* One session is one run of the handler.  pc is the handler's position;   *)
(* the client, the transport and the recognition engine are the            *)
(* environment: the client chooses the inbound frames, the transport may   *)
(* lose the connection during any send, and an engine call may raise.      *)
(* A send that fails means the connection is gone: every later send on     *)
(* the same connection fails too.                                          *)
(***************************************************************************)
EXTENDS Integers, Sequences, FiniteSets, TLC

\* ---- bounds of the model ----
MaxMsgs == 3        \* inbound frames delivered to one session
MaxTextLen == 2     \* length of an engine hypothesis, in characters
MaxBytes == 4       \* byte length of a decoded audio payload
MaxConcMsgs == 2    \* inbound frames delivered to two concurrent sessions
MaxConcTextLen == 1 \* length of a hypothesis when two sessions run

\* np.float32: a sample is 4 bytes
SampleBytes == 4

VARIABLES
    pc,          \* position of the handler
    stt_model,   \* module-level model: "loaded" or "None"
    transcriber, \* local `transcriber`: "None" or "ctx"
    entered,     \* __enter__ returned (transcriber_context is bound)
    result,      \* transcriber_context.result: NoResult or a text
    conn,        \* transport: "open" or "lost"
    data,        \* the inbound frame being handled
    frames,      \* kinds of the inbound frames received so far, in order
    events,      \* events delivered to the client, in order
    attempts,    \* number of send_json calls made
    ingests,     \* number of add_audio calls made
    exitCalls,   \* number of transcriber.__exit__ calls made
    wsClosed,    \* websocket.close() was called by the handler
    raised,      \* an exception is propagating out of the handler
    logs,        \* number of logger calls made
    other        \* the locals of the suspended task of a second connection

vars == <<pc, stt_model, transcriber, entered, result, conn, data, frames,
          events, attempts, ingests, exitCalls, wsClosed, raised, logs,
          other>>

\* the suspended task: no statement of the running handler touches it
loop == <<other>>

\* ---- texts and str.strip() ----
Chars == {" ", "a"}

Texts == UNION {[1..n -> Chars] : n \in 0..MaxTextLen}

\* transcriber_context.result: absent, or an object with a .text
NoResult == [present |-> FALSE, text |-> <<>>]

Result(t) == [present |-> TRUE, text |-> t]

Results == {NoResult} \cup {Result(t) : t \in Texts}

RECURSIVE LStrip(_)
LStrip(t) == IF t # <<>> /\ Head(t) = " " THEN LStrip(Tail(t)) ELSE t

RECURSIVE RStrip(_)
RStrip(t) ==
    IF t # <<>> /\ t[Len(t)] = " " THEN RStrip(SubSeq(t, 1, Len(t) - 1)) ELSE t

Strip(t) == RStrip(LStrip(t))

\* the results add_audio can leave in a context of n-character hypotheses
ResultsUpTo(n) == {r \in Results : Len(r.text) <= n}

\* `transcriber_context.result and transcriber_context.result.text`
HasText(r) == r.present /\ r.text # <<>>

\* ---- inbound frames ----
\* the "data" field of a message: absent, not valid base64, or the base64
\* of nbytes bytes
MissingData == [has |-> FALSE, b64ok |-> FALSE, nbytes |-> 0]

BadBase64 == [has |-> TRUE, b64ok |-> FALSE, nbytes |-> 0]

Base64Of(n) == [has |-> TRUE, b64ok |-> TRUE, nbytes |-> n]

Payloads == {MissingData, BadBase64} \cup {Base64Of(n) : n \in 0..MaxBytes}

NoData == [frame |-> "none", type |-> "none", payload |-> MissingData]

Inbound ==
    {[frame |-> f, type |-> "none", payload |-> MissingData] :
        f \in {"binary", "badjson", "nonobject"}}
    \cup {[frame |-> "object", type |-> "audio", payload |-> p] : p \in Payloads}
    \cup {[frame |-> "object", type |-> t, payload |-> MissingData] :
        t \in {"end", "other", "none"}}

\* receive_text() and json.loads() succeed and the value has .get
Parses(m) == m.frame = "object"

\* base64.b64decode(data["data"]) and np.frombuffer(.., float32) succeed
DecodeOk(p) == p.has /\ p.b64ok /\ p.nbytes % SampleBytes = 0

Kind(m) ==
    IF ~Parses(m) THEN "malformed"
    ELSE IF m.type = "audio" THEN (IF DecodeOk(m.payload) THEN "audio" ELSE "audio_bad")
    ELSE IF m.type = "end" THEN "end"
    ELSE "unknown"

\* ---- outbound events ----
Ev(ty, tx, fin) == [type |-> ty, text |-> tx, final |-> fin]

ReadyEv == Ev("ready", <<>>, FALSE)
ErrorEv == Ev("error", <<>>, FALSE)
DoneEv == Ev("done", <<>>, FALSE)
Transcription(tx, fin) == Ev("transcription", tx, fin)

\* websocket.send_json(ev): delivered, or the connection is lost and the
\* call raises WebSocketDisconnect (-> wsdPc) or another Exception (-> excPc)
SendJson(ev, okPc, wsdPc, excPc) ==
    /\ attempts' = attempts + 1
    /\ \/ /\ conn = "open"
          /\ conn' = conn
          /\ events' = Append(events, ev)
          /\ pc' = okPc
       \/ /\ conn' = "lost"
          /\ events' = events
          /\ pc' \in {wsdPc, excPc}

\* the locals of a handler, as a record
Locals(p, t, en, r, c, d, f, ev, at, ing, ex, ws, ra, lg) ==
    [pc |-> p, transcriber |-> t, entered |-> en, result |-> r, conn |-> c,
     data |-> d, frames |-> f, events |-> ev, attempts |-> at,
     ingests |-> ing, exitCalls |-> ex, wsClosed |-> ws, raised |-> ra,
     logs |-> lg]

\* the locals of a handler that has just accepted its connection
Fresh ==
    Locals("accepted", "None", FALSE, NoResult, "open", NoData, <<>>, <<>>,
           0, 0, 0, FALSE, FALSE, 0)

\* no second connection
Absent ==
    Locals("absent", "None", FALSE, NoResult, "open", NoData, <<>>, <<>>,
           0, 0, 0, FALSE, FALSE, 0)

\* the locals of the running handler
Frame ==
    Locals(pc, transcriber, entered, result, conn, data, frames, events,
           attempts, ingests, exitCalls, wsClosed, raised, logs)

\* the client may deliver one more frame to the running session
MayDeliver ==
    /\ Len(frames) < MaxMsgs
    /\ other.pc # "absent" => Len(frames) + Len(other.frames) < MaxConcMsgs

Init ==
    /\ pc = "accepted"
    /\ stt_model \in {"loaded", "None"}
    /\ transcriber = "None"
    /\ entered = FALSE
    /\ result = NoResult
    /\ conn = "open"
    /\ data = NoData
    /\ frames = <<>>
    /\ events = <<>>
    /\ attempts = 0
    /\ ingests = 0
    /\ exitCalls = 0
    /\ wsClosed = FALSE
    /\ raised = FALSE
    /\ logs = 0
    /\ other = Absent

\* lines 165-168: the connection is accepted and logged; if stt_model is None
CheckModel ==
    /\ pc = "accepted"
    /\ pc' = IF stt_model = "None" THEN "nomodel_send" ELSE "alloc"
    /\ UNCHANGED <<stt_model, transcriber, entered, result, conn, data, frames,
                   events, attempts, ingests, exitCalls, wsClosed, raised>>
    /\ logs' = logs + 1
    /\ UNCHANGED loop

\* line 169: the send is outside every try block
SendNoModelError ==
    /\ pc = "nomodel_send"
    /\ SendJson(ErrorEv, "nomodel_close", "finished", "finished")
    /\ raised' = (conn' = "lost")
    /\ UNCHANGED <<stt_model, transcriber, entered, result, data, frames,
                   ingests, exitCalls, wsClosed>>
    /\ UNCHANGED <<logs, loop>>

\* lines 170-171
CloseNoModel ==
    /\ pc = "nomodel_close"
    /\ wsClosed' = TRUE
    /\ pc' = "finished"
    /\ UNCHANGED <<stt_model, transcriber, entered, result, conn, data, frames,
                   events, attempts, ingests, exitCalls, raised>>
    /\ UNCHANGED <<logs, loop>>

\* lines 178-180: stt_model.transcribe_stream(...) returns or raises
AllocTranscriber ==
    /\ pc = "alloc"
    /\ \/ transcriber' = "ctx" /\ pc' = "enter"
       \/ transcriber' = transcriber /\ pc' = "outer_except"
    /\ UNCHANGED <<stt_model, entered, result, conn, data, frames, events,
                   attempts, ingests, exitCalls, wsClosed, raised>>
    /\ UNCHANGED <<logs, loop>>

\* EnterTranscriber going straight to the loop, the ready event never sent
EnterTranscriber_SkipReady ==
    /\ pc = "enter"
    /\ \/ /\ entered' = TRUE
          /\ result' \in {NoResult, Result(<<>>)}
          /\ pc' = "receive"
       \/ /\ UNCHANGED <<entered, result>>
          /\ pc' = "outer_except"
    /\ UNCHANGED <<stt_model, transcriber, conn, data, frames, events,
                   attempts, ingests, exitCalls, wsClosed, raised>>
    /\ UNCHANGED <<logs, loop>>

\* line 181: transcriber.__enter__() returns or raises
EnterTranscriber ==
    /\ pc = "enter"
    /\ \/ /\ entered' = TRUE
          /\ result' \in {NoResult, Result(<<>>)}
          /\ pc' = "send_ready"
       \/ /\ UNCHANGED <<entered, result>>
          /\ pc' = "outer_except"
    /\ UNCHANGED <<stt_model, transcriber, conn, data, frames, events,
                   attempts, ingests, exitCalls, wsClosed, raised>>
    /\ UNCHANGED <<logs, loop>>

\* SendReady with a failed send swallowed: the loop is entered anyway
SendReady_SwallowFailure ==
    /\ pc = "send_ready"
    /\ SendJson(ReadyEv, "receive", "receive", "receive")
    /\ UNCHANGED <<stt_model, transcriber, entered, result, data, frames,
                   ingests, exitCalls, wsClosed, raised>>
    /\ UNCHANGED <<logs, loop>>

\* lines 183-189
SendReady ==
    /\ pc = "send_ready"
    /\ SendJson(ReadyEv, "receive", "outer_except", "outer_except")
    /\ UNCHANGED <<stt_model, transcriber, entered, result, data, frames,
                   ingests, exitCalls, wsClosed, raised>>
    /\ UNCHANGED <<logs, loop>>

\* ReceiveText without the `except WebSocketDisconnect` clause: a disconnect
\* is handled by the generic handler of the loop
ReceiveText_DisconnectAsError ==
    /\ pc = "receive"
    /\ \/ \E m \in Inbound :
            /\ MayDeliver
            /\ frames' = Append(frames, Kind(m))
            /\ conn' = conn
            /\ IF Parses(m)
                 THEN data' = m /\ pc' = "dispatch"
                 ELSE data' = NoData /\ pc' = "inner_except"
       \/ /\ frames' = Append(frames, "disconnect")
          /\ conn' = "lost"
          /\ data' = NoData
          /\ pc' = "inner_except"
    /\ UNCHANGED <<stt_model, transcriber, entered, result, events, attempts,
                   ingests, exitCalls, wsClosed, raised>>
    /\ UNCHANGED <<logs, loop>>

\* lines 193-194 and 229-231: the next frame, or WebSocketDisconnect
ReceiveText ==
    /\ pc = "receive"
    /\ \/ \E m \in Inbound :
            /\ MayDeliver
            /\ frames' = Append(frames, Kind(m))
            /\ conn' = conn
            /\ IF Parses(m)
                 THEN data' = m /\ pc' = "dispatch"
                 ELSE data' = NoData /\ pc' = "inner_except"
            /\ logs' = logs
       \/ /\ frames' = Append(frames, "disconnect")
          /\ conn' = "lost"
          /\ data' = NoData
          /\ pc' = "finally"
          /\ logs' = logs + 1
    /\ UNCHANGED <<stt_model, transcriber, entered, result, events, attempts,
                   ingests, exitCalls, wsClosed, raised>>
    /\ UNCHANGED loop

\* DecodeAudio without the whole-samples check of np.frombuffer: the bytes
\* are handed to the engine as they are
DecodeAudio_NoLengthCheck ==
    /\ pc = "dispatch"
    /\ data.type = "audio"
    /\ pc' = IF data.payload.has /\ data.payload.b64ok
               THEN "add_audio" ELSE "inner_except"
    /\ UNCHANGED <<stt_model, transcriber, entered, result, conn, data, frames,
                   events, attempts, ingests, exitCalls, wsClosed, raised>>
    /\ UNCHANGED <<logs, loop>>

\* lines 196-206: an audio message, its payload decoded
DecodeAudio ==
    /\ pc = "dispatch"
    /\ data.type = "audio"
    /\ pc' = IF DecodeOk(data.payload) THEN "add_audio" ELSE "inner_except"
    /\ UNCHANGED <<stt_model, transcriber, entered, result, conn, data, frames,
                   events, attempts, ingests, exitCalls, wsClosed, raised>>
    /\ UNCHANGED <<logs, loop>>

\* line 209: transcriber_context.add_audio(audio_mx) returns or raises
AddAudio ==
    /\ pc = "add_audio"
    /\ ingests' = ingests + 1
    /\ \/ /\ result' \in (IF other.pc = "absent"
                            THEN Results ELSE ResultsUpTo(MaxConcTextLen))
          /\ pc' = "poll"
       \/ result' = result /\ pc' = "inner_except"
    /\ UNCHANGED <<stt_model, transcriber, entered, conn, data, frames, events,
                   attempts, exitCalls, wsClosed, raised>>
    /\ UNCHANGED <<logs, loop>>

\* PollResult without the inner `if text:` test of line 214
PollResult_NoStripTest ==
    /\ pc = "poll"
    /\ \/ pc' = IF HasText(result) THEN "send_partial" ELSE "receive"
       \/ pc' = "inner_except"
    /\ data' = IF pc' = "receive" THEN NoData ELSE data
    /\ UNCHANGED <<stt_model, transcriber, entered, result, conn, frames,
                   events, attempts, ingests, exitCalls, wsClosed, raised>>
    /\ UNCHANGED <<logs, loop>>

\* lines 212-214: read the result; send a partial when the stripped text is
\* not empty
PollResult ==
    /\ pc = "poll"
    /\ \/ pc' = IF HasText(result) /\ Strip(result.text) # <<>>
                  THEN "send_partial" ELSE "receive"
       \/ pc' = "inner_except"
    /\ data' = IF pc' = "receive" THEN NoData ELSE data
    /\ UNCHANGED <<stt_model, transcriber, entered, result, conn, frames,
                   events, attempts, ingests, exitCalls, wsClosed, raised>>
    /\ UNCHANGED <<logs, loop>>

\* lines 215-217
SendPartial ==
    /\ pc = "send_partial"
    /\ SendJson(Transcription(Strip(result.text), FALSE),
                "receive", "finally", "inner_except")
    /\ data' = IF pc' = "receive" THEN NoData ELSE data
    /\ UNCHANGED <<stt_model, transcriber, entered, result, frames, ingests,
                   exitCalls, wsClosed, raised>>
    /\ UNCHANGED <<logs, loop>>

\* lines 219-222: an end message; the result is read
EndResult ==
    /\ pc = "dispatch"
    /\ data.type = "end"
    /\ \/ pc' = IF HasText(result) THEN "send_final" ELSE "send_done"
       \/ pc' = "inner_except"
    /\ UNCHANGED <<stt_model, transcriber, entered, result, conn, data, frames,
                   events, attempts, ingests, exitCalls, wsClosed, raised>>
    /\ UNCHANGED <<logs, loop>>

\* lines 223-225
SendFinal ==
    /\ pc = "send_final"
    /\ SendJson(Transcription(Strip(result.text), TRUE),
                "send_done", "finally", "inner_except")
    /\ UNCHANGED <<stt_model, transcriber, entered, result, data, frames,
                   ingests, exitCalls, wsClosed, raised>>
    /\ UNCHANGED <<logs, loop>>

\* SendDone without the `break` of line 227
SendDone_NoBreak ==
    /\ pc = "send_done"
    /\ SendJson(DoneEv, "receive", "finally", "inner_except")
    /\ UNCHANGED <<stt_model, transcriber, entered, result, data, frames,
                   ingests, exitCalls, wsClosed, raised>>
    /\ UNCHANGED <<logs, loop>>

\* lines 226-227: send done, then break
SendDone ==
    /\ pc = "send_done"
    /\ SendJson(DoneEv, "finally", "finally", "inner_except")
    /\ UNCHANGED <<stt_model, transcriber, entered, result, data, frames,
                   ingests, exitCalls, wsClosed, raised>>
    /\ UNCHANGED <<logs, loop>>

\* lines 196 and 219: a message that is neither audio nor end falls through
\* both branches
IgnoreOther ==
    /\ pc = "dispatch"
    /\ data.type \notin {"audio", "end"}
    /\ data' = NoData
    /\ pc' = "receive"
    /\ UNCHANGED <<stt_model, transcriber, entered, result, conn, frames,
                   events, attempts, ingests, exitCalls, wsClosed, raised>>
    /\ UNCHANGED <<logs, loop>>

\* InnerExcept leaving the loop once the error event is sent
InnerExcept_Break ==
    /\ pc = "inner_except"
    /\ SendJson(ErrorEv, "finally", "outer_except", "outer_except")
    /\ data' = NoData
    /\ UNCHANGED <<stt_model, transcriber, entered, result, frames, ingests,
                   exitCalls, wsClosed, raised>>
    /\ logs' = logs + 1
    /\ UNCHANGED loop

\* InnerExcept treating every failure as fatal and silent: no error event,
\* the loop is left
InnerExcept_Fatal ==
    /\ pc = "inner_except"
    /\ pc' = "finally"
    /\ data' = NoData
    /\ UNCHANGED <<stt_model, transcriber, entered, result, conn, frames,
                   events, attempts, ingests, exitCalls, wsClosed, raised>>
    /\ UNCHANGED <<logs, loop>>

\* lines 232-234: log, send an error event, go round the loop again; an
\* exception raised by the send leaves the loop for the outer handler
InnerExcept ==
    /\ pc = "inner_except"
    /\ SendJson(ErrorEv, "receive", "outer_except", "outer_except")
    /\ data' = NoData
    /\ UNCHANGED <<stt_model, transcriber, entered, result, frames, ingests,
                   exitCalls, wsClosed, raised>>
    /\ logs' = logs + 1
    /\ UNCHANGED loop

\* OuterExcept that only logs
OuterExcept_LogOnly ==
    /\ pc = "outer_except"
    /\ pc' = "finally"
    /\ data' = NoData
    /\ UNCHANGED <<stt_model, transcriber, entered, result, conn, frames,
                   events, attempts, ingests, exitCalls, wsClosed, raised>>
    /\ logs' = logs + 1
    /\ UNCHANGED loop

\* lines 236-238: log, send an error event; an exception raised by the send
\* propagates once the finally block has run
OuterExcept ==
    /\ pc = "outer_except"
    /\ SendJson(ErrorEv, "finally", "finally", "finally")
    /\ raised' = (conn' = "lost")
    /\ data' = NoData
    /\ UNCHANGED <<stt_model, transcriber, entered, result, frames, ingests,
                   exitCalls, wsClosed>>
    /\ logs' = logs + 1
    /\ UNCHANGED loop

\* ExitTranscriber placed at the end of the try block instead of in finally:
\* skipped when an exception is propagating
ExitTranscriber_NotInFinally ==
    /\ pc = "finally"
    /\ exitCalls' = IF transcriber # "None" /\ ~raised
                      THEN exitCalls + 1 ELSE exitCalls
    /\ pc' = "ws_close"
    /\ UNCHANGED <<stt_model, transcriber, entered, result, conn, data, frames,
                   events, attempts, ingests, wsClosed, raised>>
    /\ UNCHANGED <<logs, loop>>

\* lines 239-244: if transcriber: transcriber.__exit__(None, None, None); an
\* exception raised by __exit__ is logged
ExitTranscriber ==
    /\ pc = "finally"
    /\ exitCalls' = IF transcriber # "None" THEN exitCalls + 1 ELSE exitCalls
    /\ pc' = "ws_close"
    /\ UNCHANGED <<stt_model, transcriber, entered, result, conn, data, frames,
                   events, attempts, ingests, wsClosed, raised>>
    /\ \/ logs' = logs
       \/ transcriber # "None" /\ logs' = logs + 1
    /\ UNCHANGED loop

\* lines 245-248
CloseWebSocket ==
    /\ pc = "ws_close"
    /\ wsClosed' = TRUE
    /\ pc' = "finished"
    /\ UNCHANGED <<stt_model, transcriber, entered, result, conn, data, frames,
                   events, attempts, ingests, exitCalls, raised>>
    /\ UNCHANGED <<logs, loop>>

Next ==
    \/ CheckModel
    \/ SendNoModelError
    \/ CloseNoModel
    \/ AllocTranscriber
    \/ EnterTranscriber
    \/ SendReady
    \/ ReceiveText
    \/ DecodeAudio
    \/ AddAudio
    \/ PollResult
    \/ SendPartial
    \/ EndResult
    \/ SendFinal
    \/ SendDone
    \/ IgnoreOther
    \/ InnerExcept
    \/ OuterExcept
    \/ ExitTranscriber
    \/ CloseWebSocket

Spec == Init /\ [][Next]_vars

\* ---- scheduling of one handler ----
\* every step but the wait for the next inbound frame: the event loop runs a
\* handler that is not waiting for its client
HandlerStep ==
    \/ CheckModel
    \/ SendNoModelError
    \/ CloseNoModel
    \/ AllocTranscriber
    \/ EnterTranscriber
    \/ SendReady
    \/ DecodeAudio
    \/ AddAudio
    \/ PollResult
    \/ SendPartial
    \/ EndResult
    \/ SendFinal
    \/ SendDone
    \/ IgnoreOther
    \/ InnerExcept
    \/ OuterExcept
    \/ ExitTranscriber
    \/ CloseWebSocket

\* the handler keeps running; the client is free to stay silent
LiveSpec == Init /\ [][Next]_vars /\ WF_vars(HandlerStep)

\* ---- two connections on one event loop ----
\* positions at an `await` (accept, send_json, receive_text, close): the
\* only places where the event loop can run another task; everything
\* between two awaits, the engine calls included, runs without yielding
AwaitPcs ==
    {"accepted", "nomodel_send", "nomodel_close", "send_ready", "receive",
     "send_partial", "send_final", "send_done", "inner_except",
     "outer_except", "ws_close"}

\* Switch with the engine context kept in module-level variables instead
\* of the locals of the handler
Switch_GlobalTranscriber ==
    /\ other.pc \notin {"absent", "finished"}
    /\ pc \in AwaitPcs \cup {"finished"}
    /\ other' = Frame
    /\ pc' = other.pc
    /\ conn' = other.conn
    /\ data' = other.data
    /\ frames' = other.frames
    /\ events' = other.events
    /\ attempts' = other.attempts
    /\ ingests' = other.ingests
    /\ exitCalls' = other.exitCalls
    /\ wsClosed' = other.wsClosed
    /\ raised' = other.raised
    /\ logs' = other.logs
    /\ UNCHANGED <<stt_model, transcriber, entered, result>>

\* lines 156-157: the handler is a coroutine; the running task is suspended
\* at an await (or has finished) and the event loop resumes the other task
\* with its own locals; the module-level stt_model is shared
Switch ==
    /\ other.pc \notin {"absent", "finished"}
    /\ pc \in AwaitPcs \cup {"finished"}
    /\ other' = Frame
    /\ pc' = other.pc
    /\ transcriber' = other.transcriber
    /\ entered' = other.entered
    /\ result' = other.result
    /\ conn' = other.conn
    /\ data' = other.data
    /\ frames' = other.frames
    /\ events' = other.events
    /\ attempts' = other.attempts
    /\ ingests' = other.ingests
    /\ exitCalls' = other.exitCalls
    /\ wsClosed' = other.wsClosed
    /\ raised' = other.raised
    /\ logs' = other.logs
    /\ UNCHANGED stt_model

\* two handlers that have accepted their connections
InitConc ==
    /\ stt_model \in {"loaded", "None"}
    /\ pc = Fresh.pc
    /\ transcriber = Fresh.transcriber
    /\ entered = Fresh.entered
    /\ result = Fresh.result
    /\ conn = Fresh.conn
    /\ data = Fresh.data
    /\ frames = Fresh.frames
    /\ events = Fresh.events
    /\ attempts = Fresh.attempts
    /\ ingests = Fresh.ingests
    /\ exitCalls = Fresh.exitCalls
    /\ wsClosed = Fresh.wsClosed
    /\ raised = Fresh.raised
    /\ logs = Fresh.logs
    /\ other = Fresh

NextConc ==
    \/ CheckModel
    \/ SendNoModelError
    \/ CloseNoModel
    \/ AllocTranscriber
    \/ EnterTranscriber
    \/ SendReady
    \/ ReceiveText
    \/ DecodeAudio
    \/ AddAudio
    \/ PollResult
    \/ SendPartial
    \/ EndResult
    \/ SendFinal
    \/ SendDone
    \/ IgnoreOther
    \/ InnerExcept
    \/ OuterExcept
    \/ ExitTranscriber
    \/ CloseWebSocket
    \/ Switch

ConcSpec == InitConc /\ [][NextConc]_vars

TypeOK ==
    /\ stt_model \in {"loaded", "None"}
    /\ transcriber \in {"None", "ctx"}
    /\ entered \in BOOLEAN
    /\ result \in Results
    /\ conn \in {"open", "lost"}
    /\ Len(frames) <= MaxMsgs + 1
    /\ exitCalls \in 0..2
\* ---- vocabulary of the properties ----
Last(s) == s[Len(s)]

IsPartial(e) == e.type = "transcription" /\ ~e.final

IsFinal(e) == e.type = "transcription" /\ e.final

Partials == {i \in DOMAIN events : IsPartial(events[i])}

Finals == {i \in DOMAIN events : IsFinal(events[i])}

Emitted(ty) == \E i \in DOMAIN events : events[i].type = ty

Received(k) == \E i \in DOMAIN frames : frames[i] = k

\* the session could not be opened: no model, or transcribe_stream or
\* __enter__ raised
OpenFailed == pc \notin {"accepted", "alloc", "enter"} /\ ~entered

\* C1: whenever done has been emitted, exactly one final transcription event
\* has been emitted and it is the event right before done, also when the
\* engine's text is empty or no audio was sent.
C1_FinalAlwaysPrecedesDone ==
    \A i \in DOMAIN events :
        events[i].type = "done" =>
            /\ i > 1
            /\ IsFinal(events[i - 1])
            /\ Cardinality(Finals) = 1

\* C2: at most one final transcription event has been emitted, and no
\* partial transcription event follows it.
C2_AtMostOneFinalAndLast ==
    /\ Cardinality(Finals) <= 1
    /\ \A i \in Finals : \A j \in Partials : j < i

\* C2 witness: a session that got audio, a malformed frame and end, with a
\* partial and then the final emitted
C2_Witness ==
    /\ Finals # {}
    /\ Partials # {}
    /\ Received("malformed")
    /\ Emitted("done")

\* C3: no two consecutive partial transcription events carry the same text.
C3_NoRepeatedPartial ==
    \A i \in Partials : \A j \in Partials :
        (i < j /\ \A k \in Partials : ~(i < k /\ k < j))
            => events[i].text # events[j].text

\* C4: no partial transcription event carries empty text, and a chunk after
\* which the engine's text is absent, empty or only whitespace produces no
\* send at all.
C4_NoEmptyPartial ==
    /\ [](\A i \in Partials : events[i].text # <<>>)
    /\ [][(pc = "poll" /\ Strip(result.text) = <<>>)
            => (attempts' = attempts /\ events' = events
                /\ pc' \in {"receive", "inner_except"})]_vars

\* C4 witness: three chunks ingested without any error, two partials
C4_Witness ==
    /\ pc = "receive"
    /\ frames = <<"audio", "audio", "audio">>
    /\ ingests = 3
    /\ events = <<ReadyEv, Transcription(<<"a">>, FALSE),
                  Transcription(<<"a", "a">>, FALSE)>>

\* C5: an allocated streaming context is released exactly once by the time
\* the handler has finished, and never before the teardown or twice.
C5_ReleasedExactlyOnce ==
    /\ exitCalls <= 1
    /\ exitCalls = 1 => (transcriber = "ctx" /\ pc \in {"ws_close", "finished"})
    /\ (pc = "finished" /\ transcriber = "ctx") => exitCalls = 1

\* C5 witness: the handler finished with an exception raised by a send
\* after audio was processed, the context released once
C5_Witness ==
    /\ pc = "finished"
    /\ raised
    /\ Received("audio")
    /\ exitCalls = 1

\* C6: a failure while handling an audio chunk (decode, ingest or poll) is
\* not fatal: with the client still connected, exactly one error event is
\* emitted, the handler awaits the next message, and the engine context is
\* neither changed nor released.
C6_ChunkFailureNonFatal ==
    [][(pc = "inner_except" /\ Last(frames) \in {"audio", "audio_bad"}
        /\ conn' = "open")
          => (/\ events' = Append(events, ErrorEv)
              /\ attempts' = attempts + 1
              /\ pc' = "receive"
              /\ result' = result
              /\ exitCalls' = 0)]_vars

\* C6 witness: an undecodable chunk, a valid chunk, then end: one error, one
\* partial, the final and done, the context released
C6_Witness ==
    /\ pc = "finished"
    /\ frames = <<"audio_bad", "audio", "end">>
    /\ ingests = 1
    /\ events = <<ReadyEv, ErrorEv, Transcription(<<"a">>, FALSE),
                  Transcription(<<"a">>, TRUE), DoneEv>>
    /\ exitCalls = 1

\* C7: a disconnect observed while awaiting a message starts the teardown at
\* once, and from then on no send is attempted, no event is emitted and no
\* audio is ingested.
C7_DisconnectSilent ==
    [][/\ (frames' # frames /\ Last(frames') = "disconnect")
            => (pc' = "finally" /\ attempts' = attempts /\ events' = events)
       /\ Received("disconnect")
            => (/\ attempts' = attempts
                /\ events' = events
                /\ ingests' = ingests
                /\ frames' = frames
                /\ pc' \in {"ws_close", "finished"})]_vars

\* C7 witness: a session that emitted a partial, then lost its client
C7_Witness ==
    /\ pc = "finished"
    /\ Received("disconnect")
    /\ Partials # {}
    /\ attempts = Len(events)
    /\ exitCalls = 1

\* C8: when the session cannot be opened, the handler makes exactly one send,
\* of an error event, and terminates: no ready event, no inbound frame read,
\* no audio ingested.
C8_OpenFailureTerminates ==
    OpenFailed =>
        /\ pc \in {"nomodel_send", "nomodel_close", "outer_except",
                   "finally", "ws_close", "finished"}
        /\ frames = <<>>
        /\ ingests = 0
        /\ events \in {<<>>, <<ErrorEv>>}
        /\ attempts <= 1
        /\ pc \in {"nomodel_close", "finally", "ws_close", "finished"}
             => (attempts = 1 /\ (conn = "open" => events = <<ErrorEv>>))

\* C8 witness: the model is loaded, the context could not be allocated, the
\* error event was delivered and the handler finished
C8_Witness ==
    /\ pc = "finished"
    /\ OpenFailed
    /\ stt_model = "loaded"
    /\ transcriber = "None"
    /\ events = <<ErrorEv>>

\* C9 as stated: once a malformed frame has been received, no further event
\* is attempted and no further frame is read.
C9_MalformedFrameFatal ==
    [][Received("malformed") => (attempts' = attempts /\ frames' = frames)]_vars

\* C9 amended: a malformed frame is handled like a chunk failure: exactly one
\* send of an error event is attempted for it; when it is delivered the
\* handler awaits the next message with the context unreleased, and only
\* when that send fails does the session go to its teardown.
C9_MalformedFrameNonFatal ==
    [][(pc = "inner_except" /\ Last(frames) = "malformed")
          => (/\ attempts' = attempts + 1
              /\ exitCalls' = 0
              /\ result' = result
              /\ IF conn' = "open"
                   THEN events' = Append(events, ErrorEv) /\ pc' = "receive"
                   ELSE events' = events /\ pc' = "outer_except")]_vars

\* C9 witness: a malformed frame, then a valid chunk and end, all answered
C9_Witness ==
    /\ pc = "finished"
    /\ frames = <<"malformed", "audio", "end">>
    /\ ingests = 1
    /\ events = <<ReadyEv, ErrorEv, Transcription(<<"a">>, FALSE),
                  Transcription(<<"a">>, TRUE), DoneEv>>

\* C10: every add_audio call is made on an entered context after ready was
\* emitted, and before a disconnect was observed, done was emitted or the
\* context was released.
C10_IngestOnlyWhileStreaming ==
    [][ingests' # ingests
          => (/\ transcriber = "ctx"
              /\ entered
              /\ Emitted("ready")
              /\ conn = "open"
              /\ ~Received("disconnect")
              /\ ~Emitted("done")
              /\ exitCalls = 0)]_vars

\* C10 witness: two chunks were ingested in a session that then ended
C10_Witness ==
    /\ ingests = 2
    /\ Emitted("done")
    /\ pc = "finished"

\* C11: ready is emitted at most once and is the first event; no inbound
\* frame is read before it; events are only ever appended, and when a frame
\* is read every earlier frame has already had its event: the handler is
\* back at the head of the loop and at most one event per earlier frame
\* follows ready.
C11_ReadyFirstEventsInOrder ==
    /\ [](/\ Cardinality({i \in DOMAIN events : events[i].type = "ready"}) <= 1
          /\ Emitted("ready") => events[1] = ReadyEv
          /\ frames # <<>> => (events # <<>> /\ events[1] = ReadyEv))
    /\ [][/\ \/ events' = events
             \/ /\ Len(events') = Len(events) + 1
                /\ SubSeq(events', 1, Len(events)) = events
          /\ frames' # frames
               => (/\ pc = "receive"
                   /\ data = NoData
                   /\ events' = events
                   /\ Len(events) <= Len(frames) + 1)]_vars

\* C11 witness: three chunks, the second undecodable, answered in order
C11_Witness ==
    /\ pc = "receive"
    /\ frames = <<"audio", "audio_bad", "audio">>
    /\ events = <<ReadyEv, Transcription(<<"a">>, FALSE), ErrorEv,
                  Transcription(<<"a", "a">>, FALSE)>>

\* C12: once the client has sent end or has disconnected, the session
\* eventually is closed: the handler has finished, the engine context is
\* released and the connection closed.
C12_EndOrDisconnectLeadsToClosed ==
    (Received("end") \/ Received("disconnect"))
        ~> (/\ pc = "finished"
            /\ wsClosed
            /\ transcriber = "ctx" => exitCalls = 1)

\* C13: done is emitted at most once, only in answer to end, and it is the
\* last thing the handler sends: after it no send is attempted and no frame
\* is read.
C13_DoneIsTerminal ==
    /\ [](Emitted("done")
            => (/\ Cardinality({i \in DOMAIN events : events[i] = DoneEv}) = 1
                /\ Last(events) = DoneEv
                /\ Last(frames) = "end"
                /\ pc \in {"finally", "ws_close", "finished"}))
    /\ [][Emitted("done")
            => (attempts' = attempts /\ events' = events /\ frames' = frames)]_vars

\* C13 witness: a finished session with a partial, an error, the final and
\* done
C13_Witness ==
    /\ pc = "finished"
    /\ Emitted("done")
    /\ Emitted("error")
    /\ Partials # {}
    /\ Finals # {}

\* C14: handling a message that is neither audio nor end leaves a signal: an
\* event is sent or a log entry is written.
C14_UnknownTypeSignalled ==
    [][(pc = "dispatch" /\ Kind(data) = "unknown")
          => (Len(events') > Len(events) \/ logs' > logs)]_vars

C16_EngineCallDoesNotBlock ==
    (pc = "add_audio" /\ other.pc = "receive") => ENABLED Switch

\* C17: once a send has failed (the connection was lost during a send), no
\* further send is attempted, and the engine context is still released
\* exactly once.
C17_NoSendAfterFailedSend ==
    /\ []((pc = "finished" /\ transcriber = "ctx") => exitCalls = 1)
    /\ [][(conn = "lost" /\ ~Received("disconnect"))
            => attempts' = attempts]_vars

\* C18: from the moment a chunk with an undecodable payload is read until
\* the next frame is read, add_audio is not called, the engine's result
\* stays what it was, and nothing but an error event is emitted.
C18_DecodeFailureLeavesEngine ==
    [][(frames # <<>> /\ Last(frames) = "audio_bad")
          => (/\ ingests' = ingests
              /\ result' = result
              /\ pc' \notin {"add_audio", "poll", "send_partial"}
              /\ events' \in {events, Append(events, ErrorEv)})]_vars

\* C18 witness: a chunk gave the text "a", then an undecodable chunk was
\* answered with an error, the text still "a"
C18_Witness ==
    /\ pc = "receive"
    /\ frames = <<"audio", "audio_bad">>
    /\ ingests = 1
    /\ result = Result(<<"a">>)
    /\ events = <<ReadyEv, Transcription(<<"a">>, FALSE), ErrorEv>>

\* C19: __exit__ is called only on a context whose __enter__ returned.
C19_ExitOnlyAfterEnter ==
    exitCalls > 0 => entered

\* C20: once end has been received no further inbound frame is handled: no
\* frame is read (a disconnect may still be observed), no audio is ingested
\* and no partial is emitted.
C20_NothingAfterEnd ==
    [][Received("end")
          => (/\ ingests' = ingests
              /\ frames' # frames => Last(frames') = "disconnect"
              /\ \A i \in DOMAIN events' :
                    IsPartial(events'[i]) => i \in DOMAIN events)]_vars
====
